---- MODULE Spec2Model ----
(***************************************************************************)
(* Connection engine of DushyRedisClient (src/dushy_redis_lib.py): the     *)
(* background reader (_read_responses), the command path (_send_command,   *)
(* subscribe), the lifecycle (_connect, close) and a peer that speaks the  *)
(* line protocol.  Text is modelled as sequences of one-character strings; *)
(* a JSON document on the wire is one symbol of the alphabet.              *)
(***************************************************************************)
EXTENDS Integers, Sequences, FiniteSets, TLC

VARIABLES
    running,        \* self.running
    sock,           \* self.socket: "fresh" | "failed" | "connected" | "closed"
    subscriptions,  \* self.subscriptions: channel -> sequence of callbacks
    response_queue, \* self.response_queue: FIFO of response lines
    readerPc,       \* _read_thread: "none" | "top" | "recv" | "lines" | "dispatch" | "done"
    readerExit,     \* why the reader loop ended: "" | "stopped" | "eof" | "error"
    buffer,         \* local `buffer` of _read_responses
    disp,           \* locals of the callback loop: channel, content, msg_type, index
    wire,           \* bytes the peer has written and recv has not yet returned
    peer,           \* the peer's end: "open" | "eof" | "reset" | "detached" | "held"
    toServer,       \* command lines written by socket.send, not yet answered
    pc,             \* per caller: "idle" | "send" | "await"
    cmd,            \* per caller: the command line being issued
    expect,         \* per caller: the line the peer produced for its pending command
    threads,        \* number of reader threads started
    closes,         \* close() calls made: 0, 1, or 2 for two or more
    issued,         \* number of commands callers have issued
    pushes,         \* number of push lines the peer has emitted
    result,         \* how the API call that finished last ended, and whose it was
    last,           \* where the line the reader framed last went
    calls,          \* callback invocations made for that line
    menu            \* the push lines the peer may emit: one line per
                    \* behaviour, none once the connection has ended

vars == <<running, sock, subscriptions, response_queue, readerPc, readerExit,
          buffer, disp, wire, peer, toServer, pc, cmd, expect, threads,
          closes, issued, pushes, result, last, calls, menu>>

----------------------------------------------------------------------------
(* Bounds of the model *)

MaxCmds == 2
MaxPush == 1
\* bytes in flight from the peer when it emits a push line
WireCap == 4

(* recv(4096) *)
RecvSize == 4096

----------------------------------------------------------------------------
(* Text *)

NL == "\n"
SP == " "
Whitespace == {" ", "\t", "\r", "\n"}

\* the word 'Message' is one symbol of the alphabet
MessageTok == <<"Message">>

Min(a, b) == IF a < b THEN a ELSE b

Take(s, n) == SubSeq(s, 1, Min(n, Len(s)))
Drop(s, n) == SubSeq(s, Min(n, Len(s)) + 1, Len(s))

\* position of the first c in s, 0 when there is none
RECURSIVE IndexFrom(_, _, _)
IndexFrom(s, c, i) ==
    IF i > Len(s) THEN 0
    ELSE IF s[i] = c THEN i
    ELSE IndexFrom(s, c, i + 1)

Index(s, c) == IndexFrom(s, c, 1)

Contains(s, c) == \E i \in 1..Len(s) : s[i] = c

\* str.startswith
StartsWith(s, p) == Len(s) >= Len(p) /\ SubSeq(s, 1, Len(p)) = p

\* str.split(sep, maxsplit): at most maxsplit cuts, the rest kept whole
RECURSIVE Split(_, _, _)
Split(s, sep, maxsplit) ==
    IF maxsplit = 0 \/ ~Contains(s, sep) THEN <<s>>
    ELSE <<SubSeq(s, 1, Index(s, sep) - 1)>>
         \o Split(Drop(s, Index(s, sep)), sep, maxsplit - 1)

\* str.strip(): leading and trailing whitespace removed
RECURSIVE LStrip(_)
LStrip(s) ==
    IF s # <<>> /\ s[1] \in Whitespace THEN LStrip(Tail(s)) ELSE s

RECURSIVE RStrip(_)
RStrip(s) ==
    IF s # <<>> /\ s[Len(s)] \in Whitespace
    THEN RStrip(SubSeq(s, 1, Len(s) - 1)) ELSE s

Strip(s) == RStrip(LStrip(s))

----------------------------------------------------------------------------
(* Values carried by push envelopes.  A value is [k, v]: its kind and its  *)
(* characters or bytes as numbers.                                         *)

StrVal(v) == [k |-> "str", v |-> v]
ListVal(v) == [k |-> "list", v |-> v]
BytesVal(v) == [k |-> "bytes", v |-> v]
NoVal == [k |-> "none", v |-> <<>>]

\* json.loads of the payload symbols the peer uses; anything else is not JSON
JsonDocs ==
    [J1 |-> [fields |-> {"Type", "Content"}, Type |-> 1, Content |-> StrVal(<<104, 105>>)],
     J2 |-> [fields |-> {"Type", "Content"}, Type |-> 2, Content |-> ListVal(<<66, 105>>)],
     JT |-> [fields |-> {"Content"}, Type |-> 0, Content |-> StrVal(<<104, 105>>)],
     JC |-> [fields |-> {"Type"}, Type |-> 1, Content |-> NoVal]]

JsonOk(json_str) == Len(json_str) = 1 /\ json_str[1] \in DOMAIN JsonDocs

JsonLoads(json_str) == JsonDocs[json_str[1]]

\* bytes(content): defined on integer arrays with items in 0..255 and on bytes
BytesOk(content) ==
    \/ content.k = "bytes"
    \/ content.k = "list" /\ \A i \in 1..Len(content.v) : content.v[i] \in 0..255

Bytes(content) == BytesVal(content.v)

----------------------------------------------------------------------------
(* The peer's lines and the callers' inputs *)

Channels == {"a"}
Callbacks == {"f", "g"}

\* the callback "g" raises when invoked
Raises(callback) == callback = "g"

Payloads == {"J1", "J2", "JT", "JC", "JB"}

PushLine(channel, payload) == MessageTok \o <<SP, channel, SP, payload>>
ShortPushLine(channel) == MessageTok \o <<SP, channel>>

\* a line with nothing before its newline
EmptyLine == <<>>

\* the lines the peer may emit unasked: every payload on a channel callers
\* may subscribe to, a line without a payload, a sound line on a channel
\* nobody subscribes to, and an empty line
PushLines ==
    {PushLine(c, p) : c \in Channels, p \in Payloads}
    \cup {ShortPushLine(c) : c \in Channels}
    \cup {PushLine("b", "J1")}
    \cup {EmptyLine}

\* what the peer may answer a command with
Responses ==
    { <<"O", "K">>, <<"7", "\r">>, MessageTok \o <<"s">> }

PlainCommand == <<"GET", "k">>
SubscribeCommand(channel) == <<"SUBSCRIBE", channel>>

\* the threads that call the client's methods
Callers == {"t1", "t2"}

\* the thread that issues the commands when the client is used sequentially
Sequential == {"t1"}


----------------------------------------------------------------------------
(* State after __init__ *)

NoDispatch == [ch |-> "", content |-> NoVal, msg_type |-> 0, i |-> 0]
NoLine == [route |-> "none", err |-> FALSE]
Result(by, res) == [by |-> by, res |-> res, val |-> <<>>, ret |-> <<>>]

\* the engine after __init__, whatever the peer's push lines are
Constructed ==
    /\ running = FALSE
    /\ sock = "fresh"
    /\ subscriptions = <<>>
    /\ response_queue = <<>>
    /\ readerPc = "none"
    /\ readerExit = ""
    /\ buffer = <<>>
    /\ disp = NoDispatch
    /\ wire = <<>>
    /\ peer = "open"
    /\ toServer = <<>>
    /\ pc = [t \in Callers |-> "idle"]
    /\ cmd = [t \in Callers |-> <<>>]
    /\ expect = [t \in Callers |-> <<>>]
    /\ threads = 0
    /\ closes = 0
    /\ issued = 0
    /\ pushes = 0
    /\ result = Result("main", "none")
    /\ last = NoLine
    /\ calls = <<>>

\* the peer repeats one push line
Init ==
    /\ Constructed
    /\ menu \in {{line} : line \in PushLines}

engineVars == <<running, sock, subscriptions, response_queue>>
readerVars == <<readerPc, readerExit, buffer, disp, last, calls>>
callerVars == <<pc, cmd, expect, issued>>
peerVars == <<wire, peer, toServer, pushes, menu>>

----------------------------------------------------------------------------
(* Lifecycle: _connect and close *)

\* mutant: socket.connect succeeds whatever the state of the socket
CanConnect_Always(s) == TRUE

\* socket.connect can succeed on a socket that was never connected or closed
CanConnect(s) == s \in {"fresh", "failed"}

\* _connect succeeds: the socket is connected, running is set, the reader starts
ConnectOk ==
    /\ CanConnect(sock)
    /\ sock' = "connected"
    /\ running' = TRUE
    /\ readerPc' = "top"
    /\ threads' = threads + 1
    /\ result' = Result("main", "connect:ok")
    /\ UNCHANGED <<subscriptions, response_queue, readerExit, buffer, disp,
                   last, calls, peerVars, callerVars, closes>>

\* mutant: running is set before socket.connect is attempted
ConnectFail_RunningFirst ==
    /\ CanConnect(sock)
    /\ sock' = "failed"
    /\ running' = TRUE
    /\ result' = Result("main", "connect:OSError")
    /\ UNCHANGED <<subscriptions, response_queue, readerVars, peerVars,
                   callerVars, threads, closes>>

\* socket.connect raises on a client that is not connected (the peer refuses
\* or cannot be reached): the exception leaves _connect, nothing else runs
ConnectFail ==
    /\ CanConnect(sock)
    /\ sock' = "failed"
    /\ result' = Result("main", "connect:OSError")
    /\ UNCHANGED <<running, subscriptions, response_queue, readerVars, peerVars,
                   callerVars, threads, closes>>

\* _connect on a client whose socket is connected or closed: socket.connect
\* raises and the call leaves everything as it was, the last result included
ConnectAgain ==
    /\ ~CanConnect(sock)
    /\ UNCHANGED vars

\* after close() the connection is gone for the client: what the peer wrote
\* stays readable only to a recv already blocked on the socket
Undelivered == IF readerPc = "recv" THEN wire ELSE <<>>

\* the connection after close().  socket.close() releases the descriptor
\* but does not wake a recv that another thread has blocked on it: that recv
\* keeps the connection open ("held") and the peer sees no end-of-stream;
\* here the peer then stays silent.  A reader that has yet to enter recv
\* finds the socket closed, so both outcomes follow a close() made while
\* the reader is at recv with nothing to read.
PeerAfterClose ==
    IF peer = "held" THEN {"held"}
    ELSE IF sock = "connected" /\ peer = "open" /\ readerPc = "recv"
            /\ wire = <<>>
    THEN {"detached", "held"}
    ELSE {"detached"}

\* mutant: closing a socket that is already closed raises
SocketClose_Strict(s) == [sock |-> "closed", raises |-> s = "closed"]

\* socket.close(): the socket's state afterwards, and whether the call raises;
\* closing a closed socket is allowed and changes nothing
SocketClose(s) == [sock |-> "closed", raises |-> FALSE]

Close ==
    /\ closes' = IF closes < 2 THEN closes + 1 ELSE closes
    /\ running' = FALSE
    /\ sock' = SocketClose(sock).sock
    /\ result' = Result("main", IF SocketClose(sock).raises
                                 THEN "close:OSError" ELSE "close:ok")
    /\ wire' = Undelivered
    /\ toServer' = <<>>
    /\ peer' \in PeerAfterClose
    /\ menu' = {}
    /\ UNCHANGED <<subscriptions, response_queue, readerVars, pushes,
                   callerVars, threads>>

----------------------------------------------------------------------------
(* The command path: _send_command and subscribe *)

\* mutant: a closed socket still accepts data
SendAccepted_AfterClose(s, p) == s \in {"connected", "closed"} /\ p # "reset"

\* socket.send accepts data on a connected socket whose peer has not reset it
SendAccepted(s, p) == s = "connected" /\ p # "reset"

\* socket.send(command + "\n") followed by the entry to response_queue.get()
SocketSend(t, line) ==
    IF SendAccepted(sock, peer)
    THEN /\ toServer' = Append(toServer, [t |-> t, line |-> line])
         /\ pc' = [pc EXCEPT ![t] = "await"]
         /\ cmd' = [cmd EXCEPT ![t] = line]
         /\ UNCHANGED result
    ELSE /\ pc' = [pc EXCEPT ![t] = "idle"]
         /\ cmd' = [cmd EXCEPT ![t] = <<>>]
         /\ result' = Result(t, "send:OSError")
         /\ UNCHANGED toServer

\* a caller issues a plain command: _send_command up to the blocking get
SendCommand(t) ==
    /\ pc[t] = "idle"
    /\ issued < MaxCmds
    /\ issued' = issued + 1
    /\ expect' = [expect EXCEPT ![t] = <<>>]
    /\ SocketSend(t, PlainCommand)
    /\ UNCHANGED <<engineVars, readerVars, wire, peer, pushes, menu, threads,
                   closes>>

\* mutant: the channel's list is replaced by one holding the new callback
Register_Replace(subs, channel, callback) ==
    [c \in DOMAIN subs \cup {channel} |->
        IF c = channel THEN <<callback>> ELSE subs[c]]

\* the registry after subscribe's append
Register(subs, channel, callback) ==
    IF channel \in DOMAIN subs
    THEN [subs EXCEPT ![channel] = Append(@, callback)]
    ELSE [c \in DOMAIN subs \cup {channel} |->
            IF c = channel THEN <<callback>> ELSE subs[c]]

\* subscribe, up to its call of _send_command
Subscribe(t, channel, callback) ==
    /\ pc[t] = "idle"
    /\ issued < MaxCmds
    /\ issued' = issued + 1
    /\ expect' = [expect EXCEPT ![t] = <<>>]
    /\ subscriptions' = Register(subscriptions, channel, callback)
    /\ pc' = [pc EXCEPT ![t] = "send"]
    /\ cmd' = [cmd EXCEPT ![t] = SubscribeCommand(channel)]
    /\ UNCHANGED <<running, sock, response_queue, readerVars, peerVars,
                   threads, closes, result>>

\* subscribe's _send_command, up to the blocking get
SubscribeSend(t) ==
    /\ pc[t] = "send"
    /\ SocketSend(t, cmd[t])
    /\ UNCHANGED <<engineVars, readerVars, wire, peer, pushes, menu, expect,
                   issued, threads, closes>>

\* whether the command a caller is issuing is subscribe's
IsSubscribe(command) == command # <<>> /\ command[1] = "SUBSCRIBE"

\* mutant: subscribe returns True whenever a response arrives
SubscribeReturn_Always(response) == TRUE

\* subscribe's return value: response == "OK"
SubscribeReturn(response) == response = <<"O", "K">>

\* a Python bool as text; the words are single symbols of the alphabet
PyBool(b) == IF b THEN <<"True">> ELSE <<"False">>

\* the value response_queue.get() hands to the caller
Returned(queue) == Head(queue)

\* response_queue.get() returns: the call completes with the head of the queue
GetResponse(t) ==
    /\ pc[t] = "await"
    /\ response_queue # <<>>
    /\ response_queue' = Tail(response_queue)
    /\ pc' = [pc EXCEPT ![t] = "idle"]
    /\ cmd' = [cmd EXCEPT ![t] = <<>>]
    /\ result' = [by |-> t, res |-> "returned",
                   val |-> Returned(response_queue),
                   ret |-> IF IsSubscribe(cmd[t])
                           THEN PyBool(SubscribeReturn(Returned(response_queue)))
                           ELSE Returned(response_queue)]
    /\ expect' = [expect EXCEPT ![t] = <<>>]
    /\ UNCHANGED <<running, sock, subscriptions, readerVars, peerVars, issued,
                   threads, closes>>

----------------------------------------------------------------------------
(* The peer: answers each command with one line, emits push lines, and may *)
(* end the connection.                                                     *)

\* the peer writes to, and ends, a connection the client holds open
Established == sock = "connected"

ServerAnswer(line) ==
    /\ peer = "open"
    /\ Established
    /\ toServer # <<>>
    /\ toServer' = Tail(toServer)
    /\ wire' = wire \o line \o <<NL>>
    /\ expect' = [expect EXCEPT ![Head(toServer).t] = <<line>>]
    /\ UNCHANGED <<engineVars, readerVars, peer, pushes, menu, pc, cmd, issued,
                   threads, closes, result>>

ServerPush(line) ==
    /\ line \in menu
    /\ peer = "open"
    /\ Established
    /\ pushes < MaxPush
    /\ Len(wire) <= WireCap
    /\ pushes' = pushes + 1
    /\ wire' = wire \o line \o <<NL>>
    /\ UNCHANGED <<engineVars, readerVars, peer, toServer, menu, callerVars,
                   threads, closes, result>>

\* the peer closes its end (recv returns no data once the wire is drained)
\* or the connection breaks (recv raises; undelivered bytes are discarded);
\* either way it answers no further command
ServerEnd(how) ==
    /\ peer = "open"
    /\ Established
    /\ peer' = how
    /\ wire' = IF how = "reset" THEN <<>> ELSE wire
    /\ toServer' = <<>>
    /\ menu' = {}
    /\ UNCHANGED <<engineVars, readerVars, pushes, callerVars, threads,
                   closes, result>>

----------------------------------------------------------------------------
(* The reader thread: _read_responses *)

\* where the reader goes once a line is done: the inner loop runs while the
\* buffer holds a newline, then `while self.running` decides between another
\* recv and leaving the loop
AfterLine(buf, run) ==
    IF Contains(buf, NL) THEN "lines" ELSE IF run THEN "recv" ELSE "done"

\* the reader's locals and exit reason after a step that leads to `next`
Leave(next, buf) ==
    /\ readerPc' = next
    /\ buffer' = IF next = "done" THEN <<>> ELSE buf
    /\ readerExit' = IF next = "done" THEN "stopped" ELSE readerExit

\* the thread starts: `while self.running` is evaluated for the first time
ReaderTop ==
    /\ readerPc = "top"
    /\ Leave(AfterLine(buffer, running), buffer)
    /\ UNCHANGED <<engineVars, disp, last, calls, peerVars, callerVars, threads,
                   closes, result>>

\* mutant: the chunk replaces the buffer, the retained fragment is lost
Accumulate_Replace(buf, data) == data

\* buffer += data
Accumulate(buf, data) == buf \o data

\* recv returns a chunk: any non-empty prefix of what has arrived (a recv
\* that outlives close() is the last read of the socket)
ReaderRecvData(n) ==
    /\ readerPc = "recv"
    /\ n \in 1..Min(Len(wire), RecvSize)
    /\ LET buf == Accumulate(buffer, Take(wire, n))
           next == AfterLine(buf, running) IN
       /\ Leave(next, buf)
       /\ wire' = IF sock = "closed" THEN <<>> ELSE Drop(wire, n)
    /\ UNCHANGED <<engineVars, disp, last, calls, peer, toServer, pushes, menu,
                   callerVars, threads, closes, result>>

\* the flag the reader leaves in self.running when it breaks out of the loop
RunningAfterBreak(r) == r

\* recv returns no data (end-of-stream) or raises (broken connection, or
\* recv is called on a socket already closed): the loop is left by `break`
ReaderRecvEnd(why) ==
    /\ readerPc = "recv"
    /\ \/ why = "eof" /\ peer = "eof" /\ wire = <<>>
       \/ why = "error" /\ (peer = "reset" \/ (sock = "closed" /\ peer # "held"))
    /\ readerPc' = "done"
    /\ readerExit' = why
    /\ running' = RunningAfterBreak(running)
    /\ buffer' = <<>>
    /\ wire' = IF sock = "closed" THEN <<>> ELSE wire
    /\ UNCHANGED <<sock, subscriptions, response_queue, disp, last, calls,
                   peer, toServer, pushes, menu, callerVars, threads, closes,
                   result>>

\* mutant: no line is taken for a push notification
IsPush_Never(line) == FALSE

\* line.startswith('Message')
IsPush(line) == StartsWith(line, MessageTok)

\* the registry key a channel token names (channel names are one character)
ChannelOf(token) == IF Len(token) = 1 THEN token[1] ELSE "?"

\* mutant: the registry is indexed without the membership test, so a channel
\* without an entry raises KeyError
Decode_NoMembershipTest(line, subs) ==
    LET parts == Split(line, SP, 2) IN
    IF Len(parts) # 3 THEN [res |-> "error"]
    ELSE IF ~JsonOk(parts[3]) THEN [res |-> "error"]
    ELSE LET message == JsonLoads(parts[3])
             channel == ChannelOf(parts[2]) IN
         IF "Content" \notin message.fields THEN [res |-> "error"]
         ELSE IF "Type" \notin message.fields THEN [res |-> "error"]
         ELSE IF channel \notin DOMAIN subs THEN [res |-> "error"]
         ELSE [res |-> "dispatch", ch |-> channel,
               content |-> message.Content, msg_type |-> message.Type]

\* the push branch up to the callback loop: "error" when an exception is
\* raised, "drop" when the channel has no entry, "dispatch" otherwise
Decode(line, subs) ==
    LET parts == Split(line, SP, 2) IN
    IF Len(parts) # 3 THEN [res |-> "error"]
    ELSE IF ~JsonOk(parts[3]) THEN [res |-> "error"]
    ELSE LET message == JsonLoads(parts[3])
             channel == ChannelOf(parts[2]) IN
         IF channel \notin DOMAIN subs THEN [res |-> "drop"]
         ELSE IF "Content" \notin message.fields THEN [res |-> "error"]
         ELSE IF "Type" \notin message.fields THEN [res |-> "error"]
         ELSE [res |-> "dispatch", ch |-> channel,
               content |-> message.Content, msg_type |-> message.Type]

\* mutant: the line is enqueued as framed, untrimmed
Enqueued_Untrimmed(line) == line

\* what the reader puts on the response queue for a plain line
Enqueued(line) == Strip(line)

\* mutant: the exception reaches the outer `except`, which breaks the loop
AfterPushError_Break(buf, run) == "done"

\* where the reader goes after an exception caught by the inner `except`
AfterPushError(buf, run) == AfterLine(buf, run)

\* mutant: an empty line is handled like any other line
Skipped_Never(line) == FALSE

\* `if not line: continue`
Skipped(line) == line = <<>>

\* mutant: the line taken from the buffer is the last complete one
RECURSIVE FirstLine_Last(_)
FirstLine_Last(buf) ==
    IF Contains(Drop(buf, Index(buf, NL)), NL)
    THEN FirstLine_Last(Drop(buf, Index(buf, NL)))
    ELSE SubSeq(buf, 1, Index(buf, NL) - 1)

\* line, buffer = buffer.split('\n', 1)
FirstLine(buf) == SubSeq(buf, 1, Index(buf, NL) - 1)
Rest(buf) == Drop(buf, Index(buf, NL))

\* the lines `while '\n' in buffer` hands on when buf is all it is given:
\* every non-empty line in order; what follows the last newline stays behind
RECURSIVE FrameAll(_)
FrameAll(buf) ==
    IF ~Contains(buf, NL) THEN <<>>
    ELSE (IF Skipped(FirstLine(buf)) THEN <<>> ELSE <<FirstLine(buf)>>)
         \o FrameAll(Rest(buf))

\* one pass of `while '\n' in buffer`: frame a line and route it
ReaderLine ==
    /\ readerPc = "lines"
    /\ LET line == FirstLine(buffer)
           rest == Rest(buffer)
           d == Decode(line, subscriptions) IN
       IF Skipped(line)
       THEN /\ Leave(AfterLine(rest, running), rest)
            /\ UNCHANGED <<response_queue, disp, last, calls>>
       ELSE IF IsPush(line)
       THEN /\ last' = [route |-> d.res, err |-> d.res = "error"]
            /\ calls' = <<>>
            /\ IF d.res = "dispatch"
               THEN /\ Leave("dispatch", rest)
                    /\ disp' = [ch |-> d.ch, content |-> d.content,
                                msg_type |-> d.msg_type, i |-> 1]
               ELSE /\ Leave(IF d.res = "error"
                             THEN AfterPushError(rest, running)
                             ELSE AfterLine(rest, running), rest)
                    /\ disp' = disp
            /\ UNCHANGED response_queue
       ELSE /\ response_queue' = Append(response_queue, Enqueued(line))
            /\ last' = [route |-> "queue", err |-> FALSE]
            /\ calls' = <<>>
            /\ Leave(AfterLine(rest, running), rest)
            /\ UNCHANGED disp
    /\ UNCHANGED <<running, sock, subscriptions, peerVars, callerVars, threads,
                   closes, result>>

\* whether the callback loop goes on to the next callback after this one
LoopContinues(raised, i, n) == ~raised /\ i < n

\* one pass of `for callback in self.subscriptions[channel]`
ReaderCallback ==
    /\ readerPc = "dispatch"
    /\ LET callback == subscriptions[disp.ch][disp.i]
           convert == disp.msg_type = 2
           failed == convert /\ ~BytesOk(disp.content)
           content == IF convert /\ ~failed THEN Bytes(disp.content)
                      ELSE disp.content
           raised == failed \/ Raises(callback) IN
       /\ calls' = IF failed THEN calls
                   ELSE Append(calls, [callback |-> callback, arg |-> content])
       /\ last' = [last EXCEPT !.err = raised]
       /\ IF LoopContinues(raised, disp.i, Len(subscriptions[disp.ch]))
          THEN /\ disp' = [disp EXCEPT !.i = @ + 1, !.content = content]
               /\ Leave("dispatch", buffer)
          ELSE /\ disp' = NoDispatch
               /\ Leave(AfterLine(buffer, running), buffer)
    /\ UNCHANGED <<engineVars, peerVars, callerVars, threads, closes, result>>

----------------------------------------------------------------------------
(* The engine used sequentially: one thread issues the commands *)

Next ==
    \/ ConnectOk
    \/ ConnectFail
    \/ ConnectAgain
    \/ Close
    \/ \E t \in Sequential : SendCommand(t)
    \/ \E t \in Sequential, channel \in Channels, callback \in Callbacks :
          Subscribe(t, channel, callback)
    \/ \E t \in Sequential : SubscribeSend(t)
    \/ \E t \in Sequential : GetResponse(t)
    \/ \E line \in Responses : ServerAnswer(line)
    \/ \E line \in PushLines : ServerPush(line)
    \/ \E how \in {"eof", "reset"} : ServerEnd(how)
    \/ ReaderTop
    \/ \E n \in 1..Min(Len(wire), RecvSize) : ReaderRecvData(n)
    \/ \E why \in {"eof", "error"} : ReaderRecvEnd(why)
    \/ ReaderLine
    \/ ReaderCallback

Spec == Init /\ [][Next]_vars

----------------------------------------------------------------------------
(* The engine used by two threads at once: nothing in _send_command keeps  *)
(* a second thread from sending while the first awaits its response.       *)

NextConcurrent ==
    \/ ConnectOk
    \/ ConnectFail
    \/ ConnectAgain
    \/ Close
    \/ \E t \in Callers : SendCommand(t)
    \/ \E t \in Callers, channel \in Channels, callback \in Callbacks :
          Subscribe(t, channel, callback)
    \/ \E t \in Callers : SubscribeSend(t)
    \/ \E t \in Callers : GetResponse(t)
    \/ \E line \in Responses : ServerAnswer(line)
    \/ \E line \in PushLines : ServerPush(line)
    \/ \E how \in {"eof", "reset"} : ServerEnd(how)
    \/ ReaderTop
    \/ \E n \in 1..Min(Len(wire), RecvSize) : ReaderRecvData(n)
    \/ \E why \in {"eof", "error"} : ReaderRecvEnd(why)
    \/ ReaderLine
    \/ ReaderCallback

Concurrent == Init /\ [][NextConcurrent]_vars

----------------------------------------------------------------------------
(* Steps of the engine, as the properties below recognise them *)

\* caller t's response_queue.get() returns in this step
Returns(t) == pc[t] = "await" /\ pc'[t] = "idle"

\* caller t's socket.send is executed in this step: after it t awaits, or
\* the call has ended and the result recorded is t's
Sends(t) ==
    \/ /\ pc[t] = "idle"
       /\ issued' = issued + 1
       /\ \A u \in Callers \ {t} : pc'[u] = pc[u]
       /\ pc'[t] = "await" \/ (pc'[t] = "idle" /\ result'.by = t)
    \/ pc[t] = "send" /\ pc'[t] # "send"

\* the reader frames and routes a line in this step
Frames == readerPc = "lines" /\ buffer' # buffer

\* the callback loop of a notification ends in this step
DispatchEnds == readerPc = "dispatch" /\ readerPc' # "dispatch"

\* recv hands the reader a chunk in this step
Receives == readerPc = "recv" /\ buffer' # buffer /\ readerPc' # "done"

\* socket.connect raises in _connect on a client that is not connected
ConnectRaises ==
    \/ sock' = "failed" /\ sock # "failed"
    \/ result'.res = "connect:OSError" /\ result.res # "connect:OSError"

\* the registry after callback has been added at the end of channel's list,
\* the list being created when the channel has none
WithCallback(subs, channel, callback) ==
    [c \in DOMAIN subs \cup {channel} |->
        IF c # channel THEN subs[c]
        ELSE IF c \in DOMAIN subs THEN subs[c] \o <<callback>>
        ELSE <<callback>>]

\* nothing is put on the response queue in this step (a caller may take its
\* head)
NothingPut ==
    \/ response_queue' = response_queue
    \/ response_queue # <<>> /\ response_queue' = Tail(response_queue)

\* close() is called in this step
Closes == closes' = closes + 1

\* the push token of the wire protocol: the word followed by a space
PushToken == MessageTok \o <<SP>>

\* a line of the form `Message <channel> <envelope>` with Type and Content
WellFormedPush(line) ==
    LET parts == Split(line, SP, 2) IN
    /\ StartsWith(line, PushToken)
    /\ Len(parts) = 3
    /\ JsonOk(parts[3])
    /\ JsonLoads(parts[3]).fields = {"Type", "Content"}

\* the channel a well-formed push line names
PushChannel(line) == ChannelOf(Split(line, SP, 2)[2])

----------------------------------------------------------------------------
(* C1: whenever a _send_command call returns, the value it returns is the  *)
(* trimmed line the peer produced for that call's own command, whatever    *)
(* push lines were interleaved.                                            *)
C1_ResponseMatchesCommand ==
    [][\A t \in Callers :
         Returns(t) =>
            /\ expect[t] # <<>>
            /\ result'.val = Strip(expect[t][1])]_vars

\* both commands have returned and a push line was read in between
C1_Witness ==
    /\ issued = 2
    /\ pushes = 1
    /\ result.res = "returned"
    /\ result.val = <<"7">>
    /\ wire = <<>>
    /\ last.route = "queue"

(* C2: a caller blocked on the response queue when close() is called       *)
(* completes with a failure; here, as the state the claim excludes: the    *)
(* connection closed, the reader gone, the queue empty and the caller      *)
(* still waiting, which nothing can end.                                   *)
C2_NoWaiterLeftBehind ==
    \A t \in Callers :
        ~(/\ pc[t] = "await"
          /\ closes > 0
          /\ readerPc = "done"
          /\ response_queue = <<>>)

(* C3: once the reader has seen end-of-stream or a read error, its loop    *)
(* has ended and the connection no longer reports itself live.             *)
C3_ReaderEndMarksClosed ==
    readerExit \in {"eof", "error"} => (readerPc = "done" /\ ~running)

(* C4: a command issued while the connection is not live fails with an     *)
(* error, writes nothing to the socket and does not wait for a response.   *)
C4_NotConnectedFails ==
    [][\A t \in Callers :
         (Sends(t) /\ ~running) =>
            /\ result' = Result(t, "send:OSError")
            /\ toServer' = toServer
            /\ pc'[t] = "idle"]_vars

\* a command was refused after close() on a connection that had been live
C4_Witness ==
    /\ result.res = "send:OSError"
    /\ sock = "closed"
    /\ threads = 1
    /\ \A t \in Callers : pc[t] = "idle"

(* C5: close() on a connection that is already closed raises nothing and   *)
(* changes nothing of the connection.                                      *)
C5_CloseIdempotent ==
    [][(Closes /\ closes > 0) =>
          /\ result'.res = "close:ok"
          /\ UNCHANGED <<running, sock, subscriptions, response_queue,
                         readerVars, peerVars, callerVars, threads>>]_vars

\* close() was called twice on a connection that had been live
C5_Witness ==
    /\ closes = 2
    /\ threads = 1
    /\ sock = "closed"
    /\ result.res = "close:ok"

\* the push line has too few parts, no JSON payload, or an incomplete envelope
DecodingFails(line) ==
    LET parts == Split(line, SP, 2) IN
    \/ Len(parts) < 3
    \/ ~JsonOk(parts[3])
    \/ JsonLoads(parts[3]).fields # {"Type", "Content"}

(* C6: a line taken for a push notification whose decoding fails is not    *)
(* put on the response queue and does not end the reader loop; a plain     *)
(* line framed after such a failure is enqueued as usual.                  *)
C6_BadPushIsolated ==
    [][Frames =>
         LET line == FirstLine(buffer) IN
         /\ (IsPush(line) /\ DecodingFails(line)) =>
               /\ response_queue' = response_queue
               /\ calls' = <<>>
               /\ readerPc' = AfterLine(Rest(buffer), running)
               /\ readerExit' # "error"
         /\ (last.err /\ line # <<>> /\ ~IsPush(line)) =>
               response_queue' = Append(response_queue, Strip(line))]_vars

\* a push line failed to decode and the caller's response is next in the buffer
C6_Witness ==
    /\ last.route = "error"
    /\ readerPc = "lines"
    /\ FirstLine(buffer) = <<"O", "K">>
    /\ \E t \in Callers : pc[t] = "await"

(* C7: a callback that raises does not keep the callbacks registered after *)
(* it from being invoked for the same notification, and the reader goes on *)
(* with the next line.                                                     *)
C7_CallbackFailureIsolated ==
    [][DispatchEnds =>
          /\ Len(calls') = Len(subscriptions[disp.ch])
          /\ readerPc' = AfterLine(buffer, running)]_vars

(* C8: a non-empty line is a push notification exactly when it begins with *)
(* 'Message ' (the word and a space); every other non-empty line goes to   *)
(* the response queue, trimmed.                                            *)
C8_PushIffToken ==
    [][Frames =>
         LET line == FirstLine(buffer) IN
         line # <<>> =>
            IF StartsWith(line, PushToken)
            THEN response_queue' = response_queue
            ELSE /\ response_queue' = Append(response_queue, Strip(line))
                 /\ last'.route = "queue"]_vars

(* C9: a well-formed push for a channel without a registry entry invokes   *)
(* no callback, reports no error, enqueues nothing, leaves the registry    *)
(* alone and lets the reader go on with the next line.                     *)
C9_UnsubscribedPushDropped ==
    [][Frames =>
         LET line == FirstLine(buffer) IN
         (WellFormedPush(line) /\ PushChannel(line) \notin DOMAIN subscriptions) =>
            /\ calls' = <<>>
            /\ ~last'.err
            /\ response_queue' = response_queue
            /\ subscriptions' = subscriptions
            /\ readerPc' = AfterLine(Rest(buffer), running)]_vars

\* a well-formed push for a channel without an entry was dropped while the
\* registry held another channel, and the reader is back in recv
C9_Witness ==
    /\ last.route = "drop"
    /\ menu = {PushLine("b", "J1")}
    /\ DOMAIN subscriptions = {"a"}
    /\ ~last.err
    /\ calls = <<>>
    /\ readerPc = "recv"

(* C10: when the callback loop of a notification ends, every callback      *)
(* registered on the channel has been invoked once, in registration order, *)
(* each with the same decoded content: bytes for Type 2, the Content value *)
(* as it is otherwise.                                                     *)
C10_AllCallbacksInOrder ==
    [][DispatchEnds =>
          LET decoded == IF disp.msg_type = 2 THEN Bytes(disp.content)
                         ELSE disp.content IN
          /\ [i \in 1..Len(calls') |-> calls'[i].callback]
                = subscriptions[disp.ch]
          /\ \A i \in 1..Len(calls') : calls'[i].arg = decoded]_vars

C12_OwnResponseWhenConcurrent ==
    [][\A t \in Callers :
         (Returns(t) /\ \E u \in Callers \ {t} : pc[u] = "await") =>
            /\ expect[t] # <<>>
            /\ result'.val = Strip(expect[t][1])]_vars

(* C13: when socket.connect fails in _connect the caller gets the error,   *)
(* running stays False and no reader thread is created or started.         *)
C13_ConnectFailureLeavesDisconnected ==
    [][ConnectRaises =>
          /\ result' = Result("main", "connect:OSError")
          /\ ~running'
          /\ threads' = 0
          /\ readerPc' = "none"
          /\ UNCHANGED <<running, threads, readerVars, subscriptions,
                         response_queue>>]_vars

\* a connection attempt has failed and the client is still disconnected
C13_Witness ==
    /\ sock = "failed"
    /\ result = Result("main", "connect:OSError")
    /\ ~running
    /\ threads = 0

(* C14: at most one reader thread exists for the connection: no more than  *)
(* one is ever started, and a reader is running only if one was started.   *)
C14_AtMostOneReader ==
    /\ threads <= 1
    /\ readerPc # "none" => threads = 1

\* the one reader is still in its loop after commands, a subscribe and a
\* close() have been made on the connection
C14_Witness ==
    /\ threads = 1
    /\ readerPc = "recv"
    /\ closes > 0
    /\ issued = MaxCmds
    /\ DOMAIN subscriptions # {}

(* C15: subscribe adds the callback at the end of the channel's list,      *)
(* creating the list when there is none; its command 'SUBSCRIBE <channel>' *)
(* is written once, by the same send-then-await path as every command; and *)
(* it returns True exactly when the response to that command is 'OK'.      *)
C15_SubscribeContract ==
    [][\A t \in Callers :
         /\ (pc[t] = "idle" /\ pc'[t] = "send") =>
               \E channel \in Channels, callback \in Callbacks :
                  /\ subscriptions'
                        = WithCallback(subscriptions, channel, callback)
                  /\ cmd'[t] = <<"SUBSCRIBE", channel>>
                  /\ toServer' = toServer
         /\ (pc[t] = "send" /\ pc'[t] = "await") =>
               /\ toServer' = Append(toServer, [t |-> t, line |-> cmd[t]])
               /\ cmd'[t] = cmd[t]
               /\ subscriptions' = subscriptions
         /\ (pc[t] = "await" /\ IsSubscribe(cmd[t])) =>
               /\ Len(toServer') <= Len(toServer)
               /\ subscriptions' = subscriptions
               /\ Returns(t) =>
                     /\ expect[t] # <<>>
                     /\ result'.ret
                           = PyBool(Strip(expect[t][1]) = <<"O", "K">>)]_vars

\* a second subscribe on the channel was answered with something other than
\* 'OK' and returned False
C15_Witness ==
    /\ result.res = "returned"
    /\ result.ret = <<"False">>
    /\ DOMAIN subscriptions = {"a"}
    /\ Len(subscriptions["a"]) = 2

(* C16: the reader handles the lines of the stream one at a time and in    *)
(* order: the line it frames is the earliest one in the buffer, a response *)
(* goes to the tail of the response queue, and while the callbacks of a    *)
(* notification are being run no other line is framed, enqueued or         *)
(* dispatched.                                                             *)
C16_LineOrderPreserved ==
    [][/\ Frames =>
            LET line == SubSeq(buffer, 1, Index(buffer, NL) - 1)
                rest == SubSeq(buffer, Index(buffer, NL) + 1, Len(buffer)) IN
            /\ readerPc' # "done" => buffer' = rest
            /\ IF line # <<>> /\ ~IsPush(line)
               THEN response_queue' = Append(response_queue, Strip(line))
               ELSE response_queue' = response_queue
            /\ readerPc' = "dispatch" =>
                  /\ disp'.ch = PushChannel(line)
                  /\ disp'.i = 1
                  /\ calls' = <<>>
       /\ readerPc = "dispatch" =>
            /\ readerPc' # "done" => buffer' = buffer
            /\ NothingPut
            /\ last'.route = "dispatch"
            /\ readerPc' = "dispatch" =>
                  /\ disp'.ch = disp.ch
                  /\ disp'.i \in {disp.i, disp.i + 1}
       /\ readerPc # "lines" => NothingPut]_vars

\* the callbacks of a notification are being run while the response to the
\* caller's command waits behind it in the buffer
C16_Witness ==
    /\ readerPc = "dispatch"
    /\ Contains(buffer, NL)
    /\ FirstLine(buffer) = <<"O", "K">>
    /\ response_queue = <<>>
    /\ \E t \in Callers : pc[t] = "await"

(* C17: an empty line is neither enqueued nor dispatched and leaves no     *)
(* trace in the reader; the lines behind it in the buffer are framed next. *)
C17_EmptyLineDropped ==
    [][Frames =>
         LET line == SubSeq(buffer, 1, Index(buffer, NL) - 1)
             rest == SubSeq(buffer, Index(buffer, NL) + 1, Len(buffer)) IN
         line = <<>> =>
            /\ UNCHANGED <<response_queue, subscriptions, disp, last, calls>>
            /\ readerPc' # "dispatch"
            /\ Contains(rest, NL) => (readerPc' = "lines" /\ buffer' = rest)]_vars

\* the peer's empty line has been framed and dropped, and the response that
\* followed it is the next line in the buffer
C17_Witness ==
    /\ menu = {EmptyLine}
    /\ pushes = 1
    /\ wire = <<>>
    /\ readerPc = "lines"
    /\ buffer = <<"O", "K", NL>>
    /\ response_queue = <<>>
    /\ last.route = "none"

(* C18: after close() the reader loop comes to an end; here, as the state  *)
(* the claim excludes: close() has returned and the reader is still inside *)
(* a recv that close() did not wake and that nothing will end while the    *)
(* peer is silent.                                                         *)
C18_ReaderEndsAfterClose ==
    ~(/\ closes > 0
      /\ ~running
      /\ sock = "closed"
      /\ readerPc = "recv"
      /\ peer = "held"
      /\ wire = <<>>)

(* C19: no step removes or reorders a registered callback: every channel   *)
(* keeps its entry and its list only grows at the end; and a SUBSCRIBE     *)
(* command is written, and is on its way to the peer, only when the        *)
(* registry already holds a callback for its channel.                      *)
C19_RegistryAppendOnly ==
    [][/\ \A c \in DOMAIN subscriptions :
            /\ c \in DOMAIN subscriptions'
            /\ Len(subscriptions'[c]) >= Len(subscriptions[c])
            /\ SubSeq(subscriptions'[c], 1, Len(subscriptions[c]))
                  = subscriptions[c]
       /\ \A t \in Callers :
            (pc[t] = "send" /\ pc'[t] # "send") =>
               /\ IsSubscribe(cmd[t])
               /\ cmd[t][2] \in DOMAIN subscriptions
               /\ subscriptions[cmd[t][2]] # <<>>
               /\ subscriptions' = subscriptions
       /\ \A i \in 1..Len(toServer') :
            IsSubscribe(toServer'[i].line) =>
               /\ toServer'[i].line[2] \in DOMAIN subscriptions'
               /\ subscriptions'[toServer'[i].line[2]] # <<>>]_vars

\* after close() a second subscribe on the channel failed while sending,
\* and the registry holds both callbacks
C19_Witness ==
    /\ closes > 0
    /\ result.res = "send:OSError"
    /\ \A t \in Callers : pc[t] = "idle"
    /\ DOMAIN subscriptions = {"a"}
    /\ Len(subscriptions["a"]) = 2

(* C20: with one thread issuing commands and a peer that answers each      *)
(* command with one line, the response queue never holds more than one     *)
(* line and is empty whenever no caller awaits a response; so it is empty  *)
(* when a command is sent, and a call can only return a line enqueued      *)
(* after that.                                                             *)
C20_QueueHoldsOnlyPendingResponse ==
    /\ Len(response_queue) <= 1
    /\ (\A t \in Callers : pc[t] # "await") => response_queue = <<>>

\* the response to the second command is on the queue, the first command
\* having returned, with a push line read along the way
C20_Witness ==
    /\ Len(response_queue) = 1
    /\ issued = 2
    /\ pushes = 1
    /\ result.res = "returned"
    /\ \E t \in Callers : pc[t] = "await"

====
